---- MODULE Spec2Model ----
(***************************************************************************)
(* Model of `trunk build` (cli/src/commands/build.rs): BuildCommand::settings *)
(* merges the command line with Trunk.toml, BuildCommand::execute detects  *)
(* the project type from Cargo.toml, validates name/version and calls      *)
(* build_pgrx or build_generic.                                            *)
(*                                                                         *)
(* Strings are sequences of tokens: "/" is the path separator, every other *)
(* token is a chunk holding no separator.  Option<T> is a sequence of      *)
(* length at most one.                                                     *)
(***************************************************************************)
EXTENDS Naturals, Sequences, FiniteSets, TLC

VARIABLES cli, trunkFile, cargoFile,
          pc, build_settings, cargo_toml, dockerfile, install_command_split,
          io, stdout, calls, result

vars == <<cli, trunkFile, cargoFile,
          pc, build_settings, cargo_toml, dockerfile, install_command_split,
          io, stdout, calls, result>>

inputs == <<cli, trunkFile, cargoFile>>

\* Longest path string (in tokens) the command line or Trunk.toml supplies.
MaxLen == 2

-----------------------------------------------------------------------------
(* Option<T> *)

None == << >>

Some(x) == <<x>>

IsSome(o) == o # << >>

Unwrap(o) == o[1]

Option(S) == {None} \cup {Some(x) : x \in S}

Range(s) == {s[i] : i \in 1..Len(s)}

-----------------------------------------------------------------------------
(* Strings and paths *)

Sep == "/"

PathChars == {Sep, "p"}

Strs == UNION {[1..k -> PathChars] : k \in 0..MaxLen}

DefaultPath == <<".">>

TrunkTomlName == <<"Trunk.toml">>

CargoTomlName == <<"Cargo.toml">>

DotTrunk == <<".trunk">>

\* std::path::Path::join followed by to_str().to_string(): an absolute
\* argument replaces the base; otherwise a separator is inserted unless the
\* base is empty or already ends with one.
Join(base, p) ==
    IF p # << >> /\ p[1] = Sep THEN p
    ELSE IF base # << >> /\ base[Len(base)] # Sep THEN base \o <<Sep>> \o p
    ELSE base \o p

-----------------------------------------------------------------------------
(* Results: anyhow::Error values are named by their kind; a panic unwinds   *)
(* out of execute and returns nothing to the caller.                        *)

Running == [kind |-> "Running", err |-> ""]

Ok == [kind |-> "Ok", err |-> ""]

Err(e) == [kind |-> "Err", err |-> e]

Panic(e) == [kind |-> "Panic", err |-> e]

ManifestParseError == Err("ManifestParseError")

ConflictingOverride ==
    Err("--version and --name are collected from Cargo.toml when building pgrx extensions, please do not configure")

MissingRequiredField ==
    Err("--version and --name are required unless building a PGRX extension")

IoError == Err("IoError")

\* What the external build routines may return.
BuildOutcomes == {Ok, Err("BuildError: docker"), Err("BuildError: cancelled")}

-----------------------------------------------------------------------------
(* Files *)

\* A TOML table is a function from the keys it holds to their values.
EmptyTable == [k \in {} |-> None]

AbsentFile == [kind |-> "absent", doc |-> EmptyTable]

UnreadableFile == [kind |-> "unreadable", doc |-> EmptyTable]

InvalidFile == [kind |-> "invalid", doc |-> EmptyTable]

TomlFile(doc) == [kind |-> "toml", doc |-> doc]

\* A section holding exactly the keys of opts that are set.
MkSection(opts) ==
    [k \in {x \in DOMAIN opts : IsSome(opts[x])} |-> Unwrap(opts[k])]

\* A Trunk.toml document; a section with no key is left out of the file.
MkDoc(ext, bld) ==
    LET all == [extension |-> MkSection(ext), build |-> MkSection(bld)]
    IN  [s \in {x \in DOMAIN all : DOMAIN all[x] # {}} |-> all[s]]

TomlString == [type |-> "string", keys |-> {}]

TomlTable(keys) == [type |-> "table", keys |-> keys]

\* Cargo.toml documents: [package] alone, dependencies that is no table,
\* and dependency tables with and without pgrx.
CargoDocs ==
    { [package |-> TomlTable({"name", "version"})],
      [package |-> TomlTable({"name", "version"}), dependencies |-> TomlString],
      [package |-> TomlTable({"name", "version"}), dependencies |-> TomlTable({})],
      [package |-> TomlTable({"name", "version"}), dependencies |-> TomlTable({"serde"})],
      [package |-> TomlTable({"name", "version"}), dependencies |-> TomlTable({"pgrx", "serde"})] }

CargoFiles == {AbsentFile, UnreadableFile, InvalidFile} \cup {TomlFile(d) : d \in CargoDocs}

PgrxCargoFile ==
    TomlFile([package |-> TomlTable({"name", "version"}),
              dependencies |-> TomlTable({"pgrx", "serde"})])

Event(op, what, path) == [op |-> op, what |-> what, path |-> path]

\* File::open succeeds on a file that is there and can be opened.
FileOpens(file) == file.kind \in {"invalid", "toml"}

\* Path::exists
Exists(file) == file.kind # "absent"

\* The text fs::read_to_string gives for the file at path p.
ContentsOf(p) == <<"contents of", p>>

\* include_str!("./builders/Dockerfile.generic")
DockerfileGeneric == <<"Dockerfile.generic">>

-----------------------------------------------------------------------------
(* crate::config (config.rs is not among the sources at hand) *)

ParseOk(v) == [ok |-> TRUE, val |-> v, err |-> Ok]

ParseErr(e) == [ok |-> FALSE, val |-> None, err |-> e]

parse_trunk_toml(file) ==
    IF file.kind = "toml" THEN ParseOk(Some(file.doc)) ELSE ParseErr(ManifestParseError)

Lookup(doc, table_name, key) ==
    IF table_name \in DOMAIN doc /\ key \in DOMAIN doc[table_name]
    THEN Some(doc[table_name][key])
    ELSE None

get_from_trunk_toml_if_not_set_on_cli(cli_setting, trunk_toml, table_name, key) ==
    IF IsSome(cli_setting) THEN cli_setting
    ELSE IF IsSome(trunk_toml) THEN Lookup(Unwrap(trunk_toml), table_name, key)
    ELSE None

-----------------------------------------------------------------------------
(* BuildCommand::settings *)

load_trunk_toml(file) ==
    IF FileOpens(file) THEN parse_trunk_toml(file) ELSE ParseOk(None)

\* Variant: the default is formed by plain concatenation, without Path::join.
resolve_output_path_concat(self) ==
    IF IsSome(self.output_path) THEN Unwrap(self.output_path)
    ELSE self.path \o DotTrunk

resolve_output_path(self) ==
    IF IsSome(self.output_path) THEN Unwrap(self.output_path)
    ELSE Join(self.path, DotTrunk)

\* Variant: the manifest wins over the command line.
resolve_name_manifest_first(self, trunk_toml) ==
    LET man == get_from_trunk_toml_if_not_set_on_cli(None, trunk_toml, "extension", "name")
    IN  IF IsSome(man) THEN man ELSE self.name

resolve_name(self, trunk_toml) ==
    get_from_trunk_toml_if_not_set_on_cli(self.name, trunk_toml, "extension", "name")

resolve_version(self, trunk_toml) ==
    get_from_trunk_toml_if_not_set_on_cli(self.version, trunk_toml, "extension", "version")

resolve_platform(self, trunk_toml) ==
    get_from_trunk_toml_if_not_set_on_cli(self.platform, trunk_toml, "build", "platform")

resolve_install_command(self, trunk_toml) ==
    get_from_trunk_toml_if_not_set_on_cli(self.install_command, trunk_toml,
                                          "build", "install_command")

\* Variant: build.dockerfile is taken as it stands, relative to the working
\* directory like --dockerfile.
resolve_dockerfile_path_unjoined(self, trunk_toml) ==
    IF IsSome(self.dockerfile_path) THEN self.dockerfile_path
    ELSE get_from_trunk_toml_if_not_set_on_cli(None, trunk_toml, "build", "dockerfile")

resolve_dockerfile_path(self, trunk_toml) ==
    IF IsSome(self.dockerfile_path) THEN self.dockerfile_path
    ELSE LET trunk_toml_dockerfile ==
                 get_from_trunk_toml_if_not_set_on_cli(None, trunk_toml, "build", "dockerfile")
         IN  IF IsSome(trunk_toml_dockerfile)
             THEN Some(Join(self.path, Unwrap(trunk_toml_dockerfile)))
             ELSE None

settings(self, file) ==
    LET path == self.path
        trunkfile_path == Join(path, TrunkTomlName)
        loaded == load_trunk_toml(file)
        trunk_toml == loaded.val
    IN  [ io  |-> <<Event("File::open", "Trunk.toml", trunkfile_path)>>,
          out |-> IF FileOpens(file) THEN << >> ELSE << <<"Trunk.toml not found">> >>,
          res |-> IF loaded.ok THEN Ok ELSE loaded.err,
          val |-> IF loaded.ok
                  THEN Some([ path            |-> path,
                              output_path     |-> resolve_output_path(self),
                              version         |-> resolve_version(self, trunk_toml),
                              name            |-> resolve_name(self, trunk_toml),
                              platform        |-> resolve_platform(self, trunk_toml),
                              dockerfile_path |-> resolve_dockerfile_path(self, trunk_toml),
                              install_command |-> resolve_install_command(self, trunk_toml) ])
                  ELSE None ]

-----------------------------------------------------------------------------
(* BuildCommand::execute, one action per step *)

Task == "task"

Fail(r) ==
    /\ result' = r
    /\ pc' = "done"

\* let build_settings = self.settings()?;  println!("Building from path ...")
Settings ==
    /\ pc = "settings"
    /\ LET s == settings(cli, trunkFile)
       IN  /\ io' = io \o s.io
           /\ IF s.res = Ok
              THEN /\ build_settings' = s.val
                   /\ stdout' = stdout \o s.out
                                 \o << <<"Building from path", Unwrap(s.val).path>> >>
                   /\ pc' = "detect"
                   /\ UNCHANGED result
              ELSE /\ stdout' = stdout \o s.out
                   /\ Fail(s.res)
                   /\ UNCHANGED build_settings
    /\ UNCHANGED <<inputs, cargo_toml, dockerfile, install_command_split, calls>>

\* cargo_toml.get("dependencies")
GetDependencies(doc) ==
    IF "dependencies" \in DOMAIN doc THEN Some(doc["dependencies"]) ELSE None

\* Value::as_table
AsTable(v) == IF v.type = "table" THEN Some(v.keys) ELSE None

\* The Cargo.toml probe: what it does to the file system, and where it leads.
detect(path, file) ==
    LET cargo_path == Join(path, CargoTomlName)
        probe == <<Event("Path::exists", "Cargo.toml", cargo_path)>>
        read == <<Event("fs::read_to_string", "Cargo.toml", cargo_path)>>
    IN  IF ~Exists(file)
        THEN [io |-> probe, next |-> "generic", doc |-> None, res |-> Running]
        ELSE IF file.kind = "unreadable"
        THEN [io |-> probe \o read, next |-> "done", doc |-> None,
              res |-> Panic("read_to_string(Cargo.toml).unwrap()")]
        ELSE IF file.kind = "invalid"
        THEN [io |-> probe \o read, next |-> "done", doc |-> None,
              res |-> Panic("toml::from_str.unwrap()")]
        ELSE IF ~IsSome(GetDependencies(file.doc))
        THEN [io |-> probe \o read, next |-> "done", doc |-> Some(file.doc),
              res |-> Panic("get(dependencies).unwrap()")]
        ELSE IF ~IsSome(AsTable(Unwrap(GetDependencies(file.doc))))
        THEN [io |-> probe \o read, next |-> "done", doc |-> Some(file.doc),
              res |-> Panic("as_table().unwrap()")]
        ELSE IF "pgrx" \in Unwrap(AsTable(Unwrap(GetDependencies(file.doc))))
        THEN [io |-> probe \o read, next |-> "pgrx", doc |-> Some(file.doc), res |-> Running]
        ELSE [io |-> probe \o read, next |-> "generic", doc |-> Some(file.doc), res |-> Running]

DetectProject ==
    /\ pc = "detect"
    /\ LET d == detect(Unwrap(build_settings).path, cargoFile)
       IN  /\ io' = io \o d.io
           /\ cargo_toml' = d.doc
           /\ result' = d.res
           /\ pc' = IF d.next = "pgrx" THEN "validate_pgrx"
                    ELSE IF d.next = "generic" THEN "validate_generic"
                    ELSE "done"
           /\ stdout' = IF d.next = "pgrx"
                        THEN Append(stdout, <<"Detected that we are building a pgrx extension">>)
                        ELSE stdout
    /\ UNCHANGED <<inputs, build_settings, dockerfile, install_command_split, calls>>

\* Variant: && in place of ||.
PgrxConflict_both(bs) == IsSome(bs.version) /\ IsSome(bs.name)

\* build_settings.version.is_some() || build_settings.name.is_some()
PgrxConflict(bs) == IsSome(bs.version) \/ IsSome(bs.name)

ValidatePgrx ==
    /\ pc = "validate_pgrx"
    /\ IF PgrxConflict(Unwrap(build_settings))
       THEN Fail(ConflictingOverride)
       ELSE pc' = "build_pgrx" /\ UNCHANGED result
    /\ UNCHANGED <<inputs, build_settings, cargo_toml, dockerfile, install_command_split,
                   io, stdout, calls>>

PgrxArgs(bs, doc) ==
    [ dockerfile_path |-> bs.dockerfile_path,
      platform        |-> bs.platform,
      path            |-> bs.path,
      output_path     |-> bs.output_path,
      cargo_toml      |-> doc,
      task            |-> Task ]

\* build_pgrx(...).await?; return Ok(())
CallBuildPgrx ==
    /\ pc = "build_pgrx"
    /\ \E ret \in BuildOutcomes :
          /\ calls' = Append(calls, [routine |-> "build_pgrx",
                                     args |-> PgrxArgs(Unwrap(build_settings), Unwrap(cargo_toml)),
                                     ret |-> ret])
          /\ Fail(ret)
    /\ UNCHANGED <<inputs, build_settings, cargo_toml, dockerfile, install_command_split,
                   io, stdout>>

\* Variant: && in place of ||.
MissingRequired_both(bs) == ~IsSome(bs.version) /\ ~IsSome(bs.name)

\* build_settings.version.is_none() || build_settings.name.is_none()
MissingRequired(bs) == ~IsSome(bs.version) \/ ~IsSome(bs.name)

ValidateGeneric ==
    /\ pc = "validate_generic"
    /\ IF MissingRequired(Unwrap(build_settings))
       THEN Fail(MissingRequiredField)
       ELSE pc' = "dockerfile" /\ UNCHANGED result
    /\ UNCHANGED <<inputs, build_settings, cargo_toml, dockerfile, install_command_split,
                   io, stdout, calls>>

\* The Dockerfile text: read from dockerfile_path, or the compiled-in template.
ReadDockerfile ==
    /\ pc = "dockerfile"
    /\ LET p == Unwrap(build_settings).dockerfile_path
       IN  IF IsSome(p)
           THEN /\ stdout' = Append(stdout, <<"Using Dockerfile at", Unwrap(p)>>)
                /\ io' = Append(io, Event("fs::read_to_string", "Dockerfile", Unwrap(p)))
                /\ \E readable \in BOOLEAN :
                      IF readable
                      THEN /\ dockerfile' = ContentsOf(Unwrap(p))
                           /\ pc' = "install_command"
                           /\ UNCHANGED result
                      ELSE /\ Fail(IoError)
                           /\ UNCHANGED dockerfile
           ELSE /\ dockerfile' = DockerfileGeneric
                /\ pc' = "install_command"
                /\ UNCHANGED <<io, stdout, result>>
    /\ UNCHANGED <<inputs, build_settings, cargo_toml, install_command_split, calls>>

\* Variant: the install command is run directly, without the shell.
install_split_direct(install_command) ==
    IF IsSome(install_command)
    THEN <<Unwrap(install_command)>>
    ELSE <<"make", "install">>

\* The install invocation: /bin/sh -c <command>, or make install.
install_split(install_command) ==
    IF IsSome(install_command)
    THEN <<"/bin/sh", "-c", Unwrap(install_command)>>
    ELSE <<"make", "install">>

InstallCommand ==
    /\ pc = "install_command"
    /\ LET ic == Unwrap(build_settings).install_command
           split == install_split(ic)
       IN  /\ install_command_split' = split
           /\ stdout' = stdout
                \o (IF IsSome(ic) THEN << >>
                    ELSE << <<"WARN: Install command is not specified, guessing the command is 'make install'">> >>)
                \o << <<"Using install command", split>> >>
    /\ pc' = "build_generic"
    /\ UNCHANGED <<inputs, build_settings, cargo_toml, dockerfile, io, calls, result>>

GenericArgs(bs, text, split) ==
    [ dockerfile      |-> text,
      platform        |-> bs.platform,
      install_command |-> split,
      path            |-> bs.path,
      output_path     |-> bs.output_path,
      name            |-> Unwrap(bs.name),
      version         |-> Unwrap(bs.version),
      task            |-> Task ]

\* build_generic(...).await?; return Ok(())
CallBuildGeneric ==
    /\ pc = "build_generic"
    /\ LET bs == Unwrap(build_settings)
       IN  IF ~IsSome(bs.name) \/ ~IsSome(bs.version)
           THEN /\ Fail(Panic("Option::unwrap() on None"))
                /\ UNCHANGED calls
           ELSE \E ret \in BuildOutcomes :
                  /\ calls' = Append(calls, [routine |-> "build_generic",
                                             args |-> GenericArgs(bs, dockerfile,
                                                                  install_command_split),
                                             ret |-> ret])
                  /\ Fail(ret)
    /\ UNCHANGED <<inputs, build_settings, cargo_toml, dockerfile, install_command_split,
                   io, stdout>>

-----------------------------------------------------------------------------
(* Inputs *)

CliValue ==
    [name |-> "foo", version |-> "1.0", platform |-> "linux/amd64",
     install_command |-> "pip install ."]

TomlValue ==
    [name |-> "bar", version |-> "2.0", platform |-> "linux/arm64",
     install_command |-> "make -C ext install"]

MaybeCli(f) == {None, Some(CliValue[f])}

MaybeToml(f) == {None, Some(TomlValue[f])}

\* Command lines and manifests that vary the four plainly overridden fields.
FieldClis ==
    [ path : {DefaultPath}, output_path : {None}, dockerfile_path : {None},
      version : MaybeCli("version"), name : MaybeCli("name"),
      platform : MaybeCli("platform"), install_command : MaybeCli("install_command") ]

FieldDocs ==
    { MkDoc(ext, bld) :
        ext \in [name : MaybeToml("name"), version : MaybeToml("version")],
        bld \in [platform : MaybeToml("platform"),
                 install_command : MaybeToml("install_command"),
                 dockerfile : {None}] }

\* Command lines and manifests that vary the paths.
NameVersion == { [name |-> None, version |-> None],
                 [name |-> Some(CliValue.name), version |-> Some(CliValue.version)] }

PathClis ==
    { [ path |-> p, output_path |-> o, dockerfile_path |-> d,
        version |-> nv.version, name |-> nv.name,
        platform |-> None, install_command |-> None ] :
        p \in Strs, o \in {None}, d \in Option(Strs), nv \in NameVersion }

OutputClis ==
    { [ path |-> p, output_path |-> o, dockerfile_path |-> None,
        version |-> nv.version, name |-> nv.name,
        platform |-> None, install_command |-> None ] :
        p \in Strs, o \in Option(Strs), nv \in NameVersion }

DockerfileDocs ==
    { MkDoc([name |-> None, version |-> None],
            [platform |-> None, install_command |-> None, dockerfile |-> d]) :
        d \in Option(Strs) }

FullDoc ==
    MkDoc([name |-> Some(TomlValue.name), version |-> Some(TomlValue.version)],
          [platform |-> Some(TomlValue.platform),
           install_command |-> Some(TomlValue.install_command),
           dockerfile |-> Some(<<"p">>)])

TrunkFilesOf(docs) == {AbsentFile, UnreadableFile, InvalidFile} \cup {TomlFile(d) : d \in docs}

InitInputs ==
    \/ /\ cli \in FieldClis
       /\ trunkFile \in TrunkFilesOf(FieldDocs)
       /\ cargoFile \in CargoFiles
    \/ /\ cli \in PathClis
       /\ trunkFile \in {AbsentFile} \cup {TomlFile(d) : d \in DockerfileDocs}
       /\ cargoFile \in {AbsentFile, PgrxCargoFile}
    \/ /\ cli \in OutputClis
       /\ trunkFile \in {AbsentFile, TomlFile(FullDoc)}
       /\ cargoFile \in {AbsentFile, PgrxCargoFile}

Init ==
    /\ InitInputs
    /\ pc = "settings"
    /\ build_settings = None
    /\ cargo_toml = None
    /\ dockerfile = << >>
    /\ install_command_split = << >>
    /\ io = << >>
    /\ stdout = << >>
    /\ calls = << >>
    /\ result = Running

Next ==
    \/ Settings
    \/ DetectProject
    \/ ValidatePgrx
    \/ CallBuildPgrx
    \/ ValidateGeneric
    \/ ReadDockerfile
    \/ InstallCommand
    \/ CallBuildGeneric

Spec == Init /\ [][Next]_vars

-----------------------------------------------------------------------------
(* Vocabulary of the properties *)

Finished == pc = "done"

SettingsOk == IsSome(build_settings)

\* What Trunk.toml holds at section.key, None when there is no manifest.
ManifestValue(section, key) ==
    IF trunkFile.kind = "toml" THEN Lookup(trunkFile.doc, section, key) ELSE None

\* execute took the pgrx branch (it announces it on stdout).
DetectedPgrx == <<"Detected that we are building a pgrx extension">> \in Range(stdout)

\* execute fell through to the generic validation.
ReachedGeneric ==
    /\ SettingsOk
    /\ pc \notin {"settings", "detect"}
    /\ detect(Unwrap(build_settings).path, cargoFile).next = "generic"

GenericCalls == {i \in 1..Len(calls) : calls[i].routine = "build_generic"}

OverrideFields == {"name", "version", "platform", "install_command"}

SectionOf ==
    [name |-> "extension", version |-> "extension",
     platform |-> "build", install_command |-> "build"]

-----------------------------------------------------------------------------
\* C1: each of name, version, platform and install_command in the settings
\* is the CLI value when one is given (whatever Trunk.toml holds), else the
\* Trunk.toml value at its section.key when the manifest has it, else absent.
C1_OverridePrecedence ==
    SettingsOk =>
        \A f \in OverrideFields :
            LET got == Unwrap(build_settings)[f]
                man == ManifestValue(SectionOf[f], f)
            IN  /\ IsSome(cli[f]) => got = cli[f]
                /\ (~IsSome(cli[f]) /\ IsSome(man)) => got = man
                /\ (~IsSome(cli[f]) /\ ~IsSome(man)) => got = None

\* CLI and manifest disagree on name, only the manifest has version, neither
\* has platform.
C1_Witness ==
    /\ SettingsOk
    /\ cli.name = Some("foo") /\ ManifestValue("extension", "name") = Some("bar")
    /\ Unwrap(build_settings).name = Some("foo")
    /\ cli.version = None /\ Unwrap(build_settings).version = Some("2.0")
    /\ cli.platform = None /\ ManifestValue("build", "platform") = None
    /\ Unwrap(build_settings).platform = None

-----------------------------------------------------------------------------
\* C2 as stated: on a pgrx project with --name or --version given, execute
\* fails with ConflictingOverride, no file I/O at all has happened before
\* the failure, and no build routine is invoked.
C2_NoFileIoBeforeConflict ==
    (Finished /\ DetectedPgrx /\ (IsSome(cli.name) \/ IsSome(cli.version))) =>
        /\ result = ConflictingOverride
        /\ io = << >>
        /\ calls = << >>

\* C2 amended: on a pgrx project with --name or --version given, execute
\* fails with ConflictingOverride without invoking a build routine and
\* without reading a Dockerfile; the file I/O done by then is the Trunk.toml
\* open and the Cargo.toml probe and read that detection rests on.
C2_ConflictBeforeBuild ==
    (Finished /\ DetectedPgrx /\ (IsSome(cli.name) \/ IsSome(cli.version))) =>
        /\ result = ConflictingOverride
        /\ calls = << >>
        /\ \A e \in Range(io) : e.what \in {"Trunk.toml", "Cargo.toml"}
        /\ \E e \in Range(io) : e.op = "fs::read_to_string" /\ e.what = "Cargo.toml"

C2_Witness ==
    /\ Finished /\ DetectedPgrx
    /\ cli.name = Some("foo") /\ cli.version = None
    /\ ManifestValue("extension", "version") = None
    /\ result = ConflictingOverride

-----------------------------------------------------------------------------
\* C3: on a pgrx project with neither --name nor --version on the command
\* line (whatever Trunk.toml holds), build_pgrx is invoked with the resolved
\* dockerfile path, platform, project path, output path and the parsed
\* Cargo.toml, its result is execute's result, and ConflictingOverride is
\* raised only when --name or --version was given.
C3_PgrxBuildUnlessCliOverride ==
    /\ (Finished /\ DetectedPgrx /\ ~IsSome(cli.name) /\ ~IsSome(cli.version)) =>
          /\ Len(calls) = 1
          /\ calls[1].routine = "build_pgrx"
          /\ calls[1].args = PgrxArgs(Unwrap(build_settings), cargoFile.doc)
          /\ result = calls[1].ret
    /\ result = ConflictingOverride => (IsSome(cli.name) \/ IsSome(cli.version))

-----------------------------------------------------------------------------
\* The three cases of project-type detection, read off Cargo.toml.
HasPgrxDependency ==
    /\ cargoFile.kind = "toml"
    /\ "dependencies" \in DOMAIN cargoFile.doc
    /\ cargoFile.doc["dependencies"].type = "table"
    /\ "pgrx" \in cargoFile.doc["dependencies"].keys

ParsesWithoutPgrx ==
    /\ cargoFile.kind = "toml"
    /\ \/ "dependencies" \notin DOMAIN cargoFile.doc
       \/ /\ cargoFile.doc["dependencies"].type = "table"
          /\ "pgrx" \notin cargoFile.doc["dependencies"].keys

GenericValidationRan ==
    LET bs == Unwrap(build_settings)
    IN  /\ ~DetectedPgrx
        /\ result.kind # "Panic"
        /\ (~IsSome(bs.name) \/ ~IsSome(bs.version)) => result = MissingRequiredField
        /\ (IsSome(bs.name) /\ IsSome(bs.version)) =>
              \/ result = IoError
              \/ Len(calls) = 1 /\ calls[1].routine = "build_generic"

\* C4: detection is total: Cargo.toml with dependencies.pgrx gives the pgrx
\* branch; a Cargo.toml that parses without a pgrx dependency key (also one
\* without a dependencies table) and a missing Cargo.toml both give the
\* generic branch, where execute goes on to the generic validation.
C4_DetectionTotal ==
    (Finished /\ SettingsOk) =>
        /\ HasPgrxDependency => DetectedPgrx
        /\ (ParsesWithoutPgrx \/ cargoFile.kind = "absent") => GenericValidationRan

-----------------------------------------------------------------------------
\* C5: in the generic branch build_generic is invoked only with name and
\* version both resolved; when either is absent execute fails with
\* MissingRequiredField, before any Dockerfile read and without invoking
\* build_generic.
C5_GenericRequiresNameVersion ==
    /\ \A i \in GenericCalls :
          /\ IsSome(Unwrap(build_settings).name)
          /\ IsSome(Unwrap(build_settings).version)
          /\ calls[i].args.name = Unwrap(Unwrap(build_settings).name)
          /\ calls[i].args.version = Unwrap(Unwrap(build_settings).version)
    /\ (Finished /\ ReachedGeneric
          /\ (~IsSome(Unwrap(build_settings).name)
                \/ ~IsSome(Unwrap(build_settings).version))) =>
          /\ result = MissingRequiredField
          /\ calls = << >>
          /\ \A e \in Range(io) : e.what # "Dockerfile"

\* name resolved from the manifest, version from nowhere.
C5_Witness ==
    /\ Finished /\ ReachedGeneric
    /\ Unwrap(build_settings).name = Some("bar")
    /\ Unwrap(build_settings).version = None
    /\ result = MissingRequiredField

-----------------------------------------------------------------------------
\* C6: the resolved Dockerfile path is the --dockerfile string unchanged
\* when given (even if Trunk.toml has build.dockerfile); else the project
\* path joined with build.dockerfile ("p" and "p" give "p/p"); else absent,
\* and then the generic build gets the compiled-in template.
C6_DockerfilePath ==
    SettingsOk =>
        LET got == Unwrap(build_settings).dockerfile_path
            man == ManifestValue("build", "dockerfile")
        IN  /\ IsSome(cli.dockerfile_path) => got = cli.dockerfile_path
            /\ (~IsSome(cli.dockerfile_path) /\ IsSome(man)) =>
                  got = Some(Join(cli.path, Unwrap(man)))
            /\ (~IsSome(cli.dockerfile_path) /\ man = Some(<<"p">>) /\ cli.path = <<"p">>) =>
                  got = Some(<<"p", "/", "p">>)
            /\ (~IsSome(cli.dockerfile_path) /\ ~IsSome(man)) => got = None
            /\ \A i \in GenericCalls :
                  calls[i].args.dockerfile =
                      IF IsSome(got) THEN ContentsOf(Unwrap(got)) ELSE DockerfileGeneric

\* A generic build whose Dockerfile came from build.dockerfile of the manifest.
C6_Witness ==
    /\ Finished /\ GenericCalls # {}
    /\ cli.dockerfile_path = None /\ cli.path = <<"p">>
    /\ ManifestValue("build", "dockerfile") = Some(<<"p">>)
    /\ calls[1].args.dockerfile = ContentsOf(<<"p", "/", "p">>)

-----------------------------------------------------------------------------
\* C7: for Trunk.toml and Cargo.toml alike, a file that is absent or cannot
\* be opened is no error (empty manifest, generic project), and a file that
\* is there but is not valid TOML makes execute return an error to its
\* caller with no build routine invoked.
C7_AbsentIsNotParseFailure ==
    Finished =>
        /\ trunkFile.kind \in {"absent", "unreadable"} => SettingsOk
        /\ trunkFile.kind = "invalid" => (result = ManifestParseError /\ calls = << >>)
        /\ (SettingsOk /\ cargoFile.kind \in {"absent", "unreadable"}) =>
              (~DetectedPgrx /\ result.kind # "Panic")
        /\ (SettingsOk /\ cargoFile.kind = "invalid") =>
              (result.kind = "Err" /\ calls = << >>)

-----------------------------------------------------------------------------
\* C8: at most one build routine is invoked, at most once; execute returns
\* success only when one routine was invoked and returned success; the
\* invoked routine's error is execute's error; and every failure before the
\* dispatch is returned to the caller as an error.
C8_ExactlyOneDispatch ==
    /\ Len(calls) <= 1
    /\ result = Ok => (Len(calls) = 1 /\ calls[1].ret = Ok)
    /\ (Finished /\ Len(calls) = 1) => result = calls[1].ret
    /\ (Finished /\ calls = << >>) => result.kind = "Err"

-----------------------------------------------------------------------------
\* C9: the install invocation handed to build_generic is exactly
\* ["/bin/sh", "-c", <install_command>] when an install command is resolved
\* (from CLI or manifest), and exactly ["make", "install"] when none is.
C9_InstallInvocation ==
    \A i \in GenericCalls :
        LET ic == IF IsSome(cli.install_command) THEN cli.install_command
                  ELSE ManifestValue("build", "install_command")
        IN  calls[i].args.install_command =
                IF IsSome(ic) THEN <<"/bin/sh", "-c", Unwrap(ic)>>
                ELSE <<"make", "install">>

\* The install command of the manifest reached build_generic in one piece.
C9_Witness ==
    /\ Finished /\ GenericCalls # {}
    /\ cli.install_command = None
    /\ calls[1].args.install_command = <<"/bin/sh", "-c", "make -C ext install">>

-----------------------------------------------------------------------------
\* C10: output_path is --output-path verbatim when given, else the project
\* path joined with ".trunk" ("p" gives "p/.trunk"); the resolved path is
\* the --path input; the manifest changes neither, and the build routines
\* receive both.
C10_OutputPath ==
    SettingsOk =>
        LET bs == Unwrap(build_settings)
        IN  /\ bs.path = cli.path
            /\ IsSome(cli.output_path) => bs.output_path = Unwrap(cli.output_path)
            /\ ~IsSome(cli.output_path) => bs.output_path = Join(cli.path, DotTrunk)
            /\ (~IsSome(cli.output_path) /\ cli.path = <<"p">>) =>
                  bs.output_path = <<"p", "/", ".trunk">>
            /\ \A i \in 1..Len(calls) :
                  /\ calls[i].args.path = cli.path
                  /\ calls[i].args.output_path = bs.output_path

\* The default output path, with a manifest that sets every key it can.
C10_Witness ==
    /\ SettingsOk
    /\ trunkFile = TomlFile(FullDoc)
    /\ cli.output_path = None /\ cli.path = <<"p">>
    /\ Unwrap(build_settings).output_path = <<"p", "/", ".trunk">>
    /\ Len(calls) = 1

====
